---------------------------- MODULE Spec2Model ----------------------------
(***************************************************************************)
(* A model of bluetoe::server (src/bluetoe/server.hpp): the ATT request    *)
(* dispatcher l2cap_input, its handlers, the per-connection data and the   *)
(* attribute database the handlers walk.                                   *)
(*                                                                         *)
(* PDUs are sequences of octets (0..255).  C++ index i of a buffer is      *)
(* index i + 1 of the sequence.  A response is the sequence of the first   *)
(* out_size octets of the output buffer, so Len(output) is out_size.       *)
(***************************************************************************)
EXTENDS Integers, Sequences, FiniteSets, TLC

(***************************************************************************)
(* Bounds of the model.                                                    *)
(***************************************************************************)
\* the larger of the two server MTUs a connection is constructed with
BigServerMtu == 29
\* sizeof of the long read-only characteristic value of the second database
LongLen == 30
\* the number of characteristics with a long value in the fourth database
LongCount == 8
\* the server MTU of the connection with room for more than 255 octets of tuples
WideMtu == 300
\* the largest buffer advertising_data is given: the size of an advertising payload
MaxCapacity == 31
\* the number of services of one kind in the fifth database
ManyCount == 64
\* the length of a device name too long for any advertising payload
LongNameLen == 30

(***************************************************************************)
(* codes.hpp: opcodes, error codes, uuids (values as in the spec, 6 and 7) *)
(***************************************************************************)
default_att_mtu_size == 23

op_error_response == 1
op_exchange_mtu_request == 2
op_exchange_mtu_response == 3
op_find_information_request == 4
op_find_information_response == 5
op_find_by_type_value_request == 6
op_find_by_type_value_response == 7
op_read_by_type_request == 8
op_read_by_type_response == 9
op_read_request == 10
op_read_response == 11
op_read_blob_request == 12
op_read_blob_response == 13
op_read_by_group_type_request == 16
op_read_by_group_type_response == 17
op_write_request == 18
op_write_response == 19

err_invalid_handle == 1
err_read_not_permitted == 2
err_write_not_permitted == 3
err_invalid_pdu == 4
err_request_not_supported == 6
err_invalid_offset == 7
err_attribute_not_found == 10
err_invalid_attribute_value_length == 13
err_unsupported_group_type == 16

uuid_primary_service == 10240
uuid_characteristic == 10243
\* marks an attribute whose real uuid is the 128 bit uuid of the preceding
\* characteristic declaration
internal_128bit_uuid == 1

format_short_16bit == 1
format_long_128bit == 2

\* details::gap_types
gap_flags == 1
gap_shortened_local_name == 8
gap_complete_local_name == 9

(***************************************************************************)
(* bits.hpp: little endian 16 bit reads and writes                         *)
(***************************************************************************)
Min(a, b) == IF a <= b THEN a ELSE b

\* static_cast< std::uint8_t >
u8(v) == v % 256

\* std::uint16_t arithmetic
u16(v) == v % 65536

\* read_16bit( &p[ i ] ), i the C++ index
read_16bit(p, i) == p[i + 1] + 256 * p[i + 2]

read_handle(p, i) == read_16bit(p, i)

\* the two octets write_16bit / write_handle store
write_16bit(v) == << v % 256, (v \div 256) % 256 >>

write_handle(v) == write_16bit(v)

\* the first n elements of s
Take(s, n) == SubSeq(s, 1, Min(n, Len(s)))

\* s without its first n elements
Drop(s, n) == SubSeq(s, Min(n, Len(s)) + 1, Len(s))

(***************************************************************************)
(* The databases: a server is a list of services, a service a uuid and a   *)
(* list of characteristics.  uuids are kept as the octets on the wire (2   *)
(* or 16, little endian).                                                  *)
(***************************************************************************)
Uuid128A == << 169, 60, 199, 91, 237, 78, 138, 162, 159, 73, 226, 13, 148, 64, 139, 140 >>
Uuid128B == << 170, 60, 199, 91, 237, 78, 138, 162, 159, 73, 226, 13, 148, 64, 139, 140 >>
\* a 16 bit uuid spelled as 128 bit uuid: the Bluetooth base uuid
BaseUuid(lo, hi) == << 251, 52, 155, 95, 128, 0, 0, 128, 0, 16, 0, 0, lo, hi, 0, 0 >>

LongValue == [ i \in 1..LongLen |-> 100 + i ]

\* the octets a client writes over the whole of the long value
WrittenLongValue == [ i \in 1..LongLen |-> 200 - i ]

Characteristic(uuid, rd, wr, val) == [ uuid |-> uuid, read |-> rd, write |-> wr, init |-> val ]

BatteryService ==
    [ uuid  |-> << 15, 24 >>,
      chars |-> << Characteristic(<< 25, 42 >>, TRUE, FALSE, << 85 >>) >> ]

CustomService ==
    [ uuid  |-> Uuid128A,
      chars |-> << Characteristic(Uuid128B, TRUE, TRUE, << 17, 34 >>),
                   Characteristic(<< 6, 42 >>, FALSE, TRUE, << 119 >>) >> ]

LongService ==
    [ uuid  |-> << 15, 24 >>,
      chars |-> << Characteristic(<< 61, 42 >>, TRUE, TRUE, LongValue) >> ]

InformationService ==
    [ uuid  |-> << 10, 24 >>,
      chars |-> << Characteristic(<< 41, 42 >>, TRUE, FALSE, << 66 >>) >> ]

\* a service with LongCount characteristics of one type, each with a long value
ManyLongService ==
    [ uuid  |-> << 10, 24 >>,
      chars |-> [ c \in 1..LongCount |-> Characteristic(<< 61, 42 >>, TRUE, FALSE, LongValue) ] ]

\* a value one octet longer than LongValue
OddValue == [ i \in 1..(LongLen + 1) |-> 100 + i ]

\* a service with LongCount characteristics of one type, each with an OddValue
OddLongService ==
    [ uuid  |-> << 10, 24 >>,
      chars |-> [ c \in 1..LongCount |-> Characteristic(<< 62, 42 >>, TRUE, FALSE, OddValue) ] ]

\* a service without characteristics: its declaration is its only attribute
PlainService == [ uuid |-> << 15, 24 >>, chars |-> << >> ]

\* the servers of the model: the spec's scenario database, a richer one, one
\* with more services of one kind than a response has room for, two with more
\* than 255 octets of values of one type, and one with ManyCount services of
\* one kind
Databases == << << BatteryService >>,
                << BatteryService, CustomService, LongService >>,
                [ s \in 1..8 |-> IF s = 4 THEN InformationService ELSE BatteryService ],
                << BatteryService, ManyLongService >>,
                << BatteryService, OddLongService >>,
                [ s \in 1..ManyCount |-> PlainService ] >>

\* server_name< Name >: the device names a server is given; none, the empty
\* string, and names that fit an advertising payload whole, just not, or not at all
Name(n) == [ configured |-> TRUE, chars |-> [ i \in 1..n |-> 64 + i ] ]

NoName == [ configured |-> FALSE, chars |-> << >> ]

ServerNames == { NoName } \cup { Name(n) : n \in { 0, 1, 5, 26, 27, LongNameLen } }

\* service.hpp: the attributes one service contributes, in handle order
RECURSIVE CharacteristicAttributes(_, _, _)
CharacteristicAttributes(chars, s, c) ==
    IF c > Len(chars) THEN << >>
    ELSE << [ kind |-> "declaration", uuid |-> uuid_characteristic, svc |-> s, chr |-> c ],
            [ kind |-> "value",
              uuid |-> IF Len(chars[c].uuid) = 2 THEN read_16bit(chars[c].uuid, 0)
                                                 ELSE internal_128bit_uuid,
              svc |-> s, chr |-> c ] >>
         \o CharacteristicAttributes(chars, s, c + 1)

ServiceAttributes(services, s) ==
    << [ kind |-> "service", uuid |-> uuid_primary_service, svc |-> s, chr |-> 0 ] >>
    \o CharacteristicAttributes(services[s].chars, s, 1)

RECURSIVE AttributeList(_, _)
AttributeList(services, s) ==
    IF s > Len(services) THEN << >>
    ELSE ServiceAttributes(services, s) \o AttributeList(services, s + 1)

\* the attribute tables of the databases, computed once
AttributeTable == [ d \in DOMAIN Databases |-> AttributeList(Databases[d], 1) ]

\* Service::number_of_attributes
service_number_of_attributes(d, s) == 1 + 2 * Len(Databases[d][s].chars)

\* the application values bound to the characteristics at construction
InitialValues(d) ==
    [ h \in 1..Len(AttributeTable[d]) |->
        LET a == AttributeTable[d][h]
        IN  IF a.kind = "value" THEN Databases[d][a.svc].chars[a.chr].init ELSE << >> ]


(***************************************************************************)
(* The state.                                                              *)
(***************************************************************************)
VARIABLES
    db,             \* which server (index into Databases) this is
    server_mtu,     \* connection_data::server_mtu_
    client_mtu,     \* connection_data::client_mtu_
    values,         \* the application values, by handle of the value attribute
    pc,             \* "idle": the transport waits for a PDU; "responded": l2cap_input returned
    input,          \* the request PDU of the last l2cap_input call (in_size is its length)
    in_out_size,    \* the out_size the caller passed to that call
    output,         \* the response: the first out_size octets of the output buffer
    accessed,       \* the handles whose access operation that call invoked
    rc,             \* the result of the read / write access of that call, or "none"
    exchanged,      \* the mtu of the most recent accepted Exchange MTU Request on the
                    \* connection since the transport last set client_mtu itself, 0 if none
    read_memo,      \* the last Read Request and its response since the last
                    \* write, mtu exchange or application change ([handle |-> 0 ...] if none)
    last_write,     \* the Write Request answered with a Write Response just before
                    \* the current request, if there is one
    mtu_before,     \* client_mtu when the current call of l2cap_input started
    set_mtu,        \* the mtu of the transport's own call of client_mtu( mtu ) since
                    \* the last accepted Exchange MTU Request, 0 if there was none
    advertising     \* the server's name and the last call of advertising_data

vars == << db, server_mtu, client_mtu, values, pc, input, in_out_size, output,
           accessed, rc, exchanged, read_memo, last_write, mtu_before, set_mtu,
           advertising >>

\* server::number_of_attributes
number_of_attributes == Len(AttributeTable[db])

\* server::attribute_at( index ), index counting from 0
attribute_at(index) == AttributeTable[db][index + 1]

\* the characteristic a declaration or value attribute belongs to
CharacteristicOf(attr) == Databases[db][attr.svc].chars[attr.chr]

\* characteristic properties: read 0x02, write 0x08
Properties(chr) == (IF chr.read THEN 2 ELSE 0) + (IF chr.write THEN 8 ELSE 0)

(***************************************************************************)
(* The attribute access contract (spec 4.1).  handle is the handle the     *)
(* caller passes to access; index the place of the attribute.              *)
(***************************************************************************)
\* the octets a read of the whole attribute yields
AttributeOctets(index, handle) ==
    LET attr == attribute_at(index)
    IN  CASE attr.kind = "service"     -> Databases[db][attr.svc].uuid
          [] attr.kind = "declaration" ->
                << Properties(CharacteristicOf(attr)) >> \o write_16bit(u16(handle + 1))
                \o CharacteristicOf(attr).uuid
          [] OTHER                     -> values[index + 1]

\* access( read( buffer, buffer + buffer_size, offset ), handle ):
\* the result and the octets written (read.buffer_size is their number)
read_access(index, buffer_size, offset, handle) ==
    LET attr == attribute_at(index)
        data == AttributeOctets(index, handle)
        n    == Min(buffer_size, Len(data) - offset)
    IN  IF attr.kind = "value" /\ ~CharacteristicOf(attr).read
        THEN [ rc |-> "read_not_permitted", data |-> << >> ]
        ELSE IF offset > Len(data)
        THEN [ rc |-> "invalid_offset", data |-> << >> ]
        ELSE [ rc   |-> IF n = Len(data) - offset THEN "success" ELSE "read_truncated",
               data |-> SubSeq(data, offset + 1, offset + n) ]

\* access( write( begin, end ), handle ): the result and the new values
write_access(index, data) ==
    LET attr == attribute_at(index)
        old  == values[index + 1]
    IN  IF attr.kind # "value" \/ ~CharacteristicOf(attr).write
        THEN [ rc |-> "write_not_permitted", values |-> values ]
        ELSE IF Len(data) > Len(old)
        THEN [ rc |-> "write_overflow", values |-> values ]
        ELSE [ rc     |-> "success",
               values |-> [ values EXCEPT ![index + 1] = data \o Drop(old, Len(data)) ] ]

\* access( compare_value( begin, end ), handle )
compare_value_access(index, data) ==
    IF AttributeOctets(index, 1) = data THEN "value_equal" ELSE "value_not_equal"

(***************************************************************************)
(* What a handler returns: the response, the connection's client mtu and   *)
(* the values after it, the handles accessed, the read / write result.     *)
(***************************************************************************)
Response(out) ==
    [ out |-> out, client_mtu |-> client_mtu, values |-> values, acc |-> {}, rc |-> "none" ]

\* connection_data::negotiated_mtu
negotiated_mtu == Min(server_mtu, client_mtu)

\* server::error_response: the octets written; none when the buffer is too small
error_response(opcode, error_code, handle, out_size) ==
    IF out_size >= 5
    THEN << op_error_response, opcode, handle % 256, handle \div 256, error_code >>
    ELSE << >>

\* check_size_and_handle_range with the last two checks in the other order
check_size_and_handle_range_swapped(A, B, in, out_size) ==
    IF Len(in) # A /\ Len(in) # B
    THEN [ ok |-> FALSE, out |-> error_response(in[1], err_invalid_pdu, 0, out_size),
           starting_handle |-> 0, ending_handle |-> 0 ]
    ELSE LET starting_handle == read_handle(in, 1)
             ending_handle   == read_handle(in, 3)
         IN  IF starting_handle > number_of_attributes
             THEN [ ok |-> FALSE,
                    out |-> error_response(in[1], err_attribute_not_found, starting_handle, out_size),
                    starting_handle |-> starting_handle, ending_handle |-> ending_handle ]
             ELSE IF starting_handle = 0 \/ starting_handle > ending_handle
             THEN [ ok |-> FALSE,
                    out |-> error_response(in[1], err_invalid_handle, starting_handle, out_size),
                    starting_handle |-> starting_handle, ending_handle |-> ending_handle ]
             ELSE [ ok |-> TRUE, out |-> << >>,
                    starting_handle |-> starting_handle, ending_handle |-> ending_handle ]

\* server::check_size_and_handle_range< A, B >
check_size_and_handle_range(A, B, in, out_size) ==
    IF Len(in) # A /\ Len(in) # B
    THEN [ ok |-> FALSE, out |-> error_response(in[1], err_invalid_pdu, 0, out_size),
           starting_handle |-> 0, ending_handle |-> 0 ]
    ELSE LET starting_handle == read_handle(in, 1)
             ending_handle   == read_handle(in, 3)
         IN  IF starting_handle = 0 \/ starting_handle > ending_handle
             THEN [ ok |-> FALSE,
                    out |-> error_response(in[1], err_invalid_handle, starting_handle, out_size),
                    starting_handle |-> starting_handle, ending_handle |-> ending_handle ]
             ELSE IF starting_handle > number_of_attributes
             THEN [ ok |-> FALSE,
                    out |-> error_response(in[1], err_attribute_not_found, starting_handle, out_size),
                    starting_handle |-> starting_handle, ending_handle |-> ending_handle ]
             ELSE [ ok |-> TRUE, out |-> << >>,
                    starting_handle |-> starting_handle, ending_handle |-> ending_handle ]

\* check_handle with the two error codes exchanged
check_handle_swapped(in, out_size) ==
    LET handle == read_handle(in, 1)
    IN  IF handle = 0
        THEN [ ok |-> FALSE, out |-> error_response(in[1], err_attribute_not_found, handle, out_size),
               handle |-> handle ]
        ELSE IF handle > number_of_attributes
        THEN [ ok |-> FALSE, out |-> error_response(in[1], err_invalid_handle, handle, out_size),
               handle |-> handle ]
        ELSE [ ok |-> TRUE, out |-> << >>, handle |-> handle ]

\* server::check_handle
check_handle(in, out_size) ==
    LET handle == read_handle(in, 1)
    IN  IF handle = 0
        THEN [ ok |-> FALSE, out |-> error_response(in[1], err_invalid_handle, handle, out_size),
               handle |-> handle ]
        ELSE IF handle > number_of_attributes
        THEN [ ok |-> FALSE, out |-> error_response(in[1], err_attribute_not_found, handle, out_size),
               handle |-> handle ]
        ELSE [ ok |-> TRUE, out |-> << >>, handle |-> handle ]

\* server::check_size_and_handle< A, B >
check_size_and_handle(A, B, in, out_size) ==
    IF Len(in) # A /\ Len(in) # B
    THEN [ ok |-> FALSE, out |-> error_response(in[1], err_invalid_pdu, 0, out_size), handle |-> 0 ]
    ELSE check_handle(in, out_size)

\* handle_exchange_mtu_request answering with the negotiated mtu
handle_exchange_mtu_request_negotiated(in, out_size) ==
    IF Len(in) # 3
    THEN Response(error_response(in[1], err_invalid_pdu, 0, out_size))
    ELSE LET mtu == read_16bit(in, 1)
         IN  IF mtu < default_att_mtu_size
             THEN Response(error_response(in[1], err_invalid_pdu, 0, out_size))
             ELSE [ Response(<< op_exchange_mtu_response >> \o write_16bit(Min(server_mtu, mtu)))
                    EXCEPT !.client_mtu = mtu ]

\* handle_exchange_mtu_request that only rejects a PDU that is too short
handle_exchange_mtu_request_minsize(in, out_size) ==
    IF Len(in) < 3
    THEN Response(error_response(in[1], err_invalid_pdu, 0, out_size))
    ELSE LET mtu == read_16bit(in, 1)
         IN  IF mtu < default_att_mtu_size
             THEN Response(error_response(in[1], err_invalid_pdu, 0, out_size))
             ELSE [ Response(<< op_exchange_mtu_response >> \o write_16bit(server_mtu))
                    EXCEPT !.client_mtu = mtu ]

\* handle_exchange_mtu_request without the check of the mtu against 23
handle_exchange_mtu_request_unchecked(in, out_size) ==
    IF Len(in) # 3
    THEN Response(error_response(in[1], err_invalid_pdu, 0, out_size))
    ELSE [ Response(<< op_exchange_mtu_response >> \o write_16bit(server_mtu))
           EXCEPT !.client_mtu = read_16bit(in, 1) ]

\* handle_exchange_mtu_request that lets the client mtu grow only
handle_exchange_mtu_request_raise_only(in, out_size) ==
    IF Len(in) # 3
    THEN Response(error_response(in[1], err_invalid_pdu, 0, out_size))
    ELSE LET mtu == read_16bit(in, 1)
         IN  IF mtu < default_att_mtu_size
             THEN Response(error_response(in[1], err_invalid_pdu, 0, out_size))
             ELSE [ Response(<< op_exchange_mtu_response >> \o write_16bit(server_mtu))
                    EXCEPT !.client_mtu = IF mtu > client_mtu THEN mtu ELSE client_mtu ]

\* handle_exchange_mtu_request that stores the mtu before it checks it
handle_exchange_mtu_request_store_first(in, out_size) ==
    IF Len(in) # 3
    THEN Response(error_response(in[1], err_invalid_pdu, 0, out_size))
    ELSE LET mtu == read_16bit(in, 1)
         IN  IF mtu < default_att_mtu_size
             THEN [ Response(error_response(in[1], err_invalid_pdu, 0, out_size))
                    EXCEPT !.client_mtu = mtu ]
             ELSE [ Response(<< op_exchange_mtu_response >> \o write_16bit(server_mtu))
                    EXCEPT !.client_mtu = mtu ]

\* server::handle_exchange_mtu_request
handle_exchange_mtu_request(in, out_size) ==
    IF Len(in) # 3
    THEN Response(error_response(in[1], err_invalid_pdu, 0, out_size))
    ELSE LET mtu == read_16bit(in, 1)
         IN  IF mtu < default_att_mtu_size
             THEN Response(error_response(in[1], err_invalid_pdu, 0, out_size))
             ELSE [ Response(<< op_exchange_mtu_response >> \o write_16bit(server_mtu))
                    EXCEPT !.client_mtu = mtu ]

\* write_128bit_uuid that reads the value attribute itself, not the declaration
\* in front of it; what the buffer held before stands in for the octets not read
write_128bit_uuid_self(index) ==
    LET read == read_access(index + 1, 19, 0, 1)
    IN  SubSeq(read.data \o [ i \in 1..19 |-> 0 ], 4, 19)

\* server::write_128bit_uuid: octets 3..18 of the characteristic declaration read
write_128bit_uuid(index) ==
    LET read == read_access(index, 19, 0, 1)
    IN  SubSeq(read.data, 4, 19)

\* collect_handle_uuid_tuples that reports every attribute in the format chosen
RECURSIVE collect_handle_uuid_tuples_mixed(_, _, _, _)
collect_handle_uuid_tuples_mixed(start, end, only_16_bit, room) ==
    LET size_per_tuple == IF only_16_bit THEN 2 + 2 ELSE 2 + 16
    IN  IF start <= end /\ start <= number_of_attributes /\ room >= size_per_tuple
        THEN LET attr == attribute_at(start - 1)
             IN  write_handle(start)
                 \o (IF only_16_bit THEN write_16bit(attr.uuid)
                                    ELSE write_128bit_uuid(start - 2))
                 \o collect_handle_uuid_tuples_mixed(start + 1, end, only_16_bit,
                                                     room - size_per_tuple)
        ELSE << >>

\* server::collect_handle_uuid_tuples: the tuples written into room octets
RECURSIVE collect_handle_uuid_tuples(_, _, _, _)
collect_handle_uuid_tuples(start, end, only_16_bit, room) ==
    LET size_per_tuple == IF only_16_bit THEN 2 + 2 ELSE 2 + 16
    IN  IF start <= end /\ start <= number_of_attributes /\ room >= size_per_tuple
        THEN LET attr            == attribute_at(start - 1)
                 is_16_bit_uuids == attr.uuid # internal_128bit_uuid
             IN  IF only_16_bit = is_16_bit_uuids
                 THEN write_handle(start)
                      \o (IF is_16_bit_uuids THEN write_16bit(attr.uuid)
                                             ELSE write_128bit_uuid(start - 2))
                      \o collect_handle_uuid_tuples(start + 1, end, only_16_bit,
                                                    room - size_per_tuple)
                 ELSE collect_handle_uuid_tuples(start + 1, end, only_16_bit, room)
        ELSE << >>

\* handle_find_information_request that always answers in the 16 bit format
handle_find_information_request_short_only(in, out_size) ==
    LET chk == check_size_and_handle_range(5, 5, in, out_size)
    IN  IF ~chk.ok THEN Response(chk.out)
        ELSE LET header == << op_find_information_response >>
                           \o (IF out_size # 1 THEN << format_short_16bit >> ELSE << >>)
             IN  Response(header
                          \o collect_handle_uuid_tuples(chk.starting_handle, chk.ending_handle,
                                                        TRUE, out_size - Len(header)))

\* server::handle_find_information_request
handle_find_information_request(in, out_size) ==
    LET chk == check_size_and_handle_range(5, 5, in, out_size)
    IN  IF ~chk.ok THEN Response(chk.out)
        ELSE LET only_16_bit_uuids ==
                     attribute_at(chk.starting_handle - 1).uuid # internal_128bit_uuid
                 header == << op_find_information_response >>
                           \o (IF out_size # 1
                               THEN << IF only_16_bit_uuids THEN format_short_16bit
                                                            ELSE format_long_128bit >>
                               ELSE << >>)
             IN  Response(header
                          \o collect_handle_uuid_tuples(chk.starting_handle, chk.ending_handle,
                                                        only_16_bit_uuids, out_size - Len(header)))

\* details::value_filter: the service declaration's value equals the octets given
value_filter(index, data) == compare_value_access(index, data) = "value_equal"

\* services_by_group that hands every service in range to the iterator
RECURSIVE services_by_group_unfiltered(_, _, _, _, _, _, _)
services_by_group_unfiltered(s, index, starting_handle, ending_handle, data, room, st) ==
    IF s > Len(Databases[db]) THEN st
    ELSE LET in_range == starting_handle <= index /\ index <= ending_handle
             fits     == room - Len(st.out) >= 4
             next     == IF in_range /\ fits
                         THEN [ out   |-> st.out \o write_handle(index)
                                          \o write_handle(u16(index + service_number_of_attributes(db, s) - 1)),
                                found |-> TRUE ]
                         ELSE st
         IN  services_by_group_unfiltered(s + 1, u16(index + service_number_of_attributes(db, s)),
                                          starting_handle, ending_handle, data, room, next)

\* services_by_group with a group end one past the last handle of the service
RECURSIVE services_by_group_end_past(_, _, _, _, _, _, _)
services_by_group_end_past(s, index, starting_handle, ending_handle, data, room, st) ==
    IF s > Len(Databases[db]) THEN st
    ELSE LET in_range == starting_handle <= index /\ index <= ending_handle
             matches  == in_range /\ value_filter(index - 1, data)
             fits     == room - Len(st.out) >= 4
             next     == IF matches /\ fits
                         THEN [ out   |-> st.out \o write_handle(index)
                                          \o write_handle(u16(index + service_number_of_attributes(db, s))),
                                found |-> TRUE ]
                         ELSE st
         IN  services_by_group_end_past(s + 1, u16(index + service_number_of_attributes(db, s)),
                                        starting_handle, ending_handle, data, room, next)

\* details::services_by_group< collect_find_by_type_groups, value_filter >::each over
\* the services from s on; index the handle of service s, st = [ out, found ]
RECURSIVE services_by_group(_, _, _, _, _, _, _)
services_by_group(s, index, starting_handle, ending_handle, data, room, st) ==
    IF s > Len(Databases[db]) THEN st
    ELSE LET in_range == starting_handle <= index /\ index <= ending_handle
             matches  == in_range /\ value_filter(index - 1, data)
             \* collect_find_by_type_groups::operator()
             fits     == room - Len(st.out) >= 4
             next     == IF matches /\ fits
                         THEN [ out   |-> st.out \o write_handle(index)
                                          \o write_handle(u16(index + service_number_of_attributes(db, s) - 1)),
                                found |-> TRUE ]
                         ELSE st
         IN  \* the iterator after this service is computed, then the loop goes on with it
             CHOOSE result \in
                 { services_by_group(s + 1, u16(index + service_number_of_attributes(db, s)),
                                     starting_handle, ending_handle, data, room, iter) :
                     iter \in { next } } : TRUE

\* server::all_services_by_group
all_services_by_group(starting_handle, ending_handle, data, room) ==
    services_by_group(1, 1, starting_handle, ending_handle, data, room,
                      [ out |-> << >>, found |-> FALSE ])

\* handle_find_by_type_value_request that looks for the value whatever the type is
handle_find_by_type_value_request_any_type(in, out_size) ==
    LET chk == check_size_and_handle_range(9, 23, in, out_size)
    IN  IF ~chk.ok THEN Response(chk.out)
        ELSE LET iterator == all_services_by_group(chk.starting_handle, chk.ending_handle,
                                                   Drop(in, 7), out_size - 1)
             IN  IF iterator.found
                 THEN Response(Take(<< op_find_by_type_value_response >> \o iterator.out,
                                    u8(Len(iterator.out)) + 1))
                 ELSE Response(error_response(in[1], err_attribute_not_found, chk.starting_handle, out_size))

\* server::handle_find_by_type_value_request
handle_find_by_type_value_request(in, out_size) ==
    LET chk == check_size_and_handle_range(9, 23, in, out_size)
    IN  IF ~chk.ok THEN Response(chk.out)
        ELSE IF read_handle(in, 5) # uuid_primary_service
        THEN Response(error_response(in[1], err_unsupported_group_type, chk.starting_handle, out_size))
        ELSE LET iterator == all_services_by_group(chk.starting_handle, chk.ending_handle,
                                                   Drop(in, 7), out_size - 1)
             IN  IF iterator.found
                 THEN Response(Take(<< op_find_by_type_value_response >> \o iterator.out,
                                    u8(Len(iterator.out)) + 1))
                 ELSE Response(error_response(in[1], err_attribute_not_found, chk.starting_handle, out_size))

\* handle_read_request that leaves the request's opcode in the response
handle_read_request_echo(in, out_size) ==
    LET chk == check_size_and_handle(3, 3, in, out_size)
    IN  IF ~chk.ok THEN Response(chk.out)
        ELSE LET read == read_access(chk.handle - 1, out_size - 1, 0, chk.handle)
                 out  == IF read.rc = "success" \/ read.rc = "read_truncated"
                         THEN << op_read_request >> \o read.data
                         ELSE error_response(in[1], err_read_not_permitted, chk.handle, out_size)
             IN  [ Response(out) EXCEPT !.acc = { chk.handle }, !.rc = read.rc ]

\* server::handle_read_request
handle_read_request(in, out_size) ==
    LET chk == check_size_and_handle(3, 3, in, out_size)
    IN  IF ~chk.ok THEN Response(chk.out)
        ELSE LET read == read_access(chk.handle - 1, out_size - 1, 0, chk.handle)
                 out  == IF read.rc = "success" \/ read.rc = "read_truncated"
                         THEN << op_read_response >> \o read.data
                         ELSE error_response(in[1], err_read_not_permitted, chk.handle, out_size)
             IN  [ Response(out) EXCEPT !.acc = { chk.handle }, !.rc = read.rc ]

\* handle_read_blob_request without the branch for invalid_offset
handle_read_blob_request_no_offset(in, out_size) ==
    LET chk == check_size_and_handle(5, 5, in, out_size)
    IN  IF ~chk.ok THEN Response(chk.out)
        ELSE LET offset == read_16bit(in, 3)
                 read   == read_access(chk.handle - 1, out_size - 1, offset, chk.handle)
                 out    == IF read.rc = "success" \/ read.rc = "read_truncated"
                           THEN << op_read_blob_response >> \o read.data
                           ELSE error_response(in[1], err_read_not_permitted, chk.handle, out_size)
             IN  [ Response(out) EXCEPT !.acc = { chk.handle }, !.rc = read.rc ]

\* server::handle_read_blob_request
handle_read_blob_request(in, out_size) ==
    LET chk == check_size_and_handle(5, 5, in, out_size)
    IN  IF ~chk.ok THEN Response(chk.out)
        ELSE LET offset == read_16bit(in, 3)
                 read   == read_access(chk.handle - 1, out_size - 1, offset, chk.handle)
                 out    == IF read.rc = "success" \/ read.rc = "read_truncated"
                           THEN << op_read_blob_response >> \o read.data
                           ELSE IF read.rc = "invalid_offset"
                           THEN error_response(in[1], err_invalid_offset, chk.handle, out_size)
                           ELSE error_response(in[1], err_read_not_permitted, chk.handle, out_size)
             IN  [ Response(out) EXCEPT !.acc = { chk.handle }, !.rc = read.rc ]

\* details::uuid_filter( bytes, is_128bit ): the attribute is of the type asked for
uuid_filter(attr, bytes, is_128bit) ==
    IF is_128bit
    THEN IF attr.uuid = internal_128bit_uuid
         THEN CharacteristicOf(attr).uuid = bytes
         ELSE bytes = BaseUuid(attr.uuid % 256, attr.uuid \div 256)
    ELSE read_16bit(bytes, 0) = attr.uuid

\* collect_attributes that appends every value read, whatever its size
collect_attributes_any_size(st, handle, room) ==
    LET maximum_pdu_size == 253
        header_size      == 2
        left             == room - Len(st.buf)
    IN  IF left >= header_size
        THEN LET max_data_size == Min(left, maximum_pdu_size + header_size) - header_size
                 read  == read_access(handle - 1, max_data_size, 0, handle)
                 n     == Len(read.data)
                 size_ == IF st.first_ THEN u8(n + header_size) ELSE st.size_
             IN  IF read.rc = "success" \/ (read.rc = "read_truncated" /\ n = maximum_pdu_size)
                 THEN [ buf    |-> st.buf \o write_handle(handle) \o read.data,
                        size_  |-> size_,
                        first_ |-> FALSE,
                        acc    |-> st.acc \cup { handle } ]
                 ELSE [ st EXCEPT !.acc = st.acc \cup { handle } ]
        ELSE st

\* details::collect_attributes::operator(): one attribute that passed the filter;
\* st = [ buf, size_, first_, acc ], buf the octets from begin_ to current_
collect_attributes(st, handle, room) ==
    LET maximum_pdu_size == 253
        header_size      == 2
        left             == room - Len(st.buf)
    IN  IF left >= header_size
        THEN LET max_data_size == Min(left, maximum_pdu_size + header_size) - header_size
                 read  == read_access(handle - 1, max_data_size, 0, handle)
                 n     == Len(read.data)
                 size_ == IF st.first_ THEN u8(n + header_size) ELSE st.size_
             IN  IF read.rc = "success" \/ (read.rc = "read_truncated" /\ n = maximum_pdu_size)
                 THEN [ buf    |-> IF n + header_size = size_
                                   THEN st.buf \o write_handle(handle) \o read.data
                                   ELSE st.buf,
                        size_  |-> size_,
                        first_ |-> FALSE,
                        acc    |-> st.acc \cup { handle } ]
                 ELSE [ st EXCEPT !.acc = st.acc \cup { handle } ]
        ELSE st

\* server::all_attributes< collect_attributes, uuid_filter >
RECURSIVE all_attributes(_, _, _, _, _, _)
all_attributes(starting_handle, ending_handle, st, bytes, is_128bit, room) ==
    IF starting_handle <= ending_handle /\ starting_handle <= number_of_attributes
    THEN \* the iterator after this handle is computed, then the loop goes on with it
         CHOOSE result \in
             { all_attributes(starting_handle + 1, ending_handle, iter, bytes, is_128bit, room) :
                 iter \in { IF uuid_filter(attribute_at(starting_handle - 1), bytes, is_128bit)
                            THEN collect_attributes(st, starting_handle, room)
                            ELSE st } } : TRUE
    ELSE st

\* server::handle_read_by_type_request
handle_read_by_type_request(in, out_size) ==
    LET chk == check_size_and_handle_range(5 + 2, 5 + 16, in, out_size)
    IN  IF ~chk.ok THEN Response(chk.out)
        ELSE LET iterator == all_attributes(chk.starting_handle, chk.ending_handle,
                                            [ buf |-> << >>, size_ |-> 0, first_ |-> TRUE, acc |-> {} ],
                                            Drop(in, 5), Len(in) = 5 + 16, out_size - 2)
             IN  IF Len(iterator.buf) # 0
                 THEN [ Response(Take(<< op_read_by_type_response, iterator.size_ >> \o iterator.buf,
                                      2 + u8(Len(iterator.buf))))
                        EXCEPT !.acc = iterator.acc ]
                 ELSE [ Response(error_response(in[1], err_attribute_not_found,
                                                chk.starting_handle, out_size))
                        EXCEPT !.acc = iterator.acc ]

\* Service::read_primary_service_response: the tuple one service appends
read_primary_service_response(s, room, starting_index, is_128bit_filter) ==
    LET attribute_data_size == IF is_128bit_filter THEN 16 + 4 ELSE 2 + 4
        uuid                == Databases[db][s].uuid
    IN  IF is_128bit_filter = (Len(uuid) = 16) /\ room >= attribute_data_size
        THEN write_handle(starting_index)
             \o write_handle(u16(starting_index + service_number_of_attributes(db, s) - 1))
             \o uuid
        ELSE << >>

\* collect_primary_services that asks each service for its own uuid width
RECURSIVE collect_primary_services_mixed(_, _, _, _, _, _)
collect_primary_services_mixed(s, index, starting_handle, ending_handle, room, st) ==
    IF s > Len(Databases[db]) THEN st
    ELSE LET in_range == starting_handle <= index /\ index <= ending_handle
             is_128   == Len(Databases[db][s].uuid) = 16
             next     == IF in_range
                         THEN [ out   |-> st.out \o read_primary_service_response(
                                              s, room - Len(st.out), index, is_128),
                                first_ |-> FALSE,
                                is_128bit_uuid_ |-> is_128,
                                attribute_data_size_ |->
                                    IF st.first_ THEN (IF is_128 THEN 16 + 4 ELSE 2 + 4)
                                                 ELSE st.attribute_data_size_ ]
                         ELSE st
         IN  collect_primary_services_mixed(s + 1, u16(index + service_number_of_attributes(db, s)),
                                            starting_handle, ending_handle, room, next)

\* details::collect_primary_services::each over the services from s on;
\* st = [ out, first_, is_128bit_uuid_, attribute_data_size_ ]
RECURSIVE collect_primary_services(_, _, _, _, _, _)
collect_primary_services(s, index, starting_handle, ending_handle, room, st) ==
    IF s > Len(Databases[db]) THEN st
    ELSE LET in_range == starting_handle <= index /\ index <= ending_handle
             is_128   == IF st.first_ THEN Len(Databases[db][s].uuid) = 16 ELSE st.is_128bit_uuid_
             next     == IF in_range
                         THEN [ out   |-> st.out \o read_primary_service_response(
                                              s, room - Len(st.out), index, is_128),
                                first_ |-> FALSE,
                                is_128bit_uuid_ |-> is_128,
                                attribute_data_size_ |->
                                    IF st.first_ THEN (IF is_128 THEN 16 + 4 ELSE 2 + 4)
                                                 ELSE st.attribute_data_size_ ]
                         ELSE st
         IN  collect_primary_services(s + 1, u16(index + service_number_of_attributes(db, s)),
                                      starting_handle, ending_handle, room, next)

\* handle_read_by_group_type_request that looks at the first two octets of the type only
handle_read_by_group_type_request_any_size(in, out_size) ==
    LET chk == check_size_and_handle_range(5 + 2, 5 + 16, in, out_size)
    IN  IF ~chk.ok THEN Response(chk.out)
        ELSE IF read_handle(in, 5) # uuid_primary_service
        THEN Response(error_response(in[1], err_unsupported_group_type, chk.starting_handle, out_size))
        ELSE LET collected == collect_primary_services(
                                  1, 1, chk.starting_handle, chk.ending_handle, out_size - 2,
                                  [ out |-> << >>, first_ |-> TRUE, is_128bit_uuid_ |-> TRUE,
                                    attribute_data_size_ |-> 0 ])
             IN  IF collected.out = << >>
                 THEN Response(error_response(in[1], err_attribute_not_found,
                                              chk.starting_handle, out_size))
                 ELSE Response(<< op_read_by_group_type_response, collected.attribute_data_size_ >>
                               \o collected.out)

\* handle_read_by_group_type_request that checks the group type before the handles
handle_read_by_group_type_request_type_first(in, out_size) ==
    IF Len(in) # 5 + 2 /\ Len(in) # 5 + 16
    THEN Response(error_response(in[1], err_invalid_pdu, 0, out_size))
    ELSE IF Len(in) = 5 + 16 \/ read_handle(in, 5) # uuid_primary_service
    THEN Response(error_response(in[1], err_unsupported_group_type, read_handle(in, 1), out_size))
    ELSE LET chk == check_size_and_handle_range(5 + 2, 5 + 16, in, out_size)
         IN  IF ~chk.ok THEN Response(chk.out)
             ELSE LET collected == collect_primary_services(
                                       1, 1, chk.starting_handle, chk.ending_handle, out_size - 2,
                                       [ out |-> << >>, first_ |-> TRUE, is_128bit_uuid_ |-> TRUE,
                                         attribute_data_size_ |-> 0 ])
                  IN  IF collected.out = << >>
                      THEN Response(error_response(in[1], err_attribute_not_found,
                                                   chk.starting_handle, out_size))
                      ELSE Response(<< op_read_by_group_type_response, collected.attribute_data_size_ >>
                                    \o collected.out)

\* server::handle_read_by_group_type_request
handle_read_by_group_type_request(in, out_size) ==
    LET chk == check_size_and_handle_range(5 + 2, 5 + 16, in, out_size)
    IN  IF ~chk.ok THEN Response(chk.out)
        ELSE IF Len(in) = 5 + 16 \/ read_handle(in, 5) # uuid_primary_service
        THEN Response(error_response(in[1], err_unsupported_group_type, chk.starting_handle, out_size))
        ELSE LET collected == collect_primary_services(
                                  1, 1, chk.starting_handle, chk.ending_handle, out_size - 2,
                                  [ out |-> << >>, first_ |-> TRUE, is_128bit_uuid_ |-> TRUE,
                                    attribute_data_size_ |-> 0 ])
             IN  IF collected.out = << >>
                 THEN Response(error_response(in[1], err_attribute_not_found,
                                              chk.starting_handle, out_size))
                 ELSE Response(<< op_read_by_group_type_response, collected.attribute_data_size_ >>
                               \o collected.out)

\* handle_write_request that answers a write without storing the octets
handle_write_request_discard(in, out_size) ==
    IF Len(in) < 3
    THEN Response(error_response(in[1], err_invalid_pdu, 0, out_size))
    ELSE LET chk == check_handle(in, out_size)
         IN  IF ~chk.ok THEN Response(chk.out)
             ELSE LET write == write_access(chk.handle - 1, Drop(in, 3))
                      out   == IF write.rc = "success"
                               THEN << op_write_response >>
                               ELSE IF write.rc = "write_overflow"
                               THEN error_response(in[1], err_invalid_attribute_value_length,
                                                   chk.handle, out_size)
                               ELSE error_response(in[1], err_write_not_permitted,
                                                   chk.handle, out_size)
                  IN  [ Response(out) EXCEPT !.acc = { chk.handle }, !.rc = write.rc ]

\* handle_write_request without the branch for write_overflow
handle_write_request_no_overflow(in, out_size) ==
    IF Len(in) < 3
    THEN Response(error_response(in[1], err_invalid_pdu, 0, out_size))
    ELSE LET chk == check_handle(in, out_size)
         IN  IF ~chk.ok THEN Response(chk.out)
             ELSE LET write == write_access(chk.handle - 1, Drop(in, 3))
                      out   == IF write.rc = "success"
                               THEN << op_write_response >>
                               ELSE error_response(in[1], err_write_not_permitted,
                                                   chk.handle, out_size)
                  IN  [ Response(out) EXCEPT !.values = write.values,
                                             !.acc = { chk.handle }, !.rc = write.rc ]

\* server::handle_write_request
handle_write_request(in, out_size) ==
    IF Len(in) < 3
    THEN Response(error_response(in[1], err_invalid_pdu, 0, out_size))
    ELSE LET chk == check_handle(in, out_size)
         IN  IF ~chk.ok THEN Response(chk.out)
             ELSE LET write == write_access(chk.handle - 1, Drop(in, 3))
                      out   == IF write.rc = "success"
                               THEN << op_write_response >>
                               ELSE IF write.rc = "write_overflow"
                               THEN error_response(in[1], err_invalid_attribute_value_length,
                                                   chk.handle, out_size)
                               ELSE error_response(in[1], err_write_not_permitted,
                                                   chk.handle, out_size)
                  IN  [ Response(out) EXCEPT !.values = write.values,
                                             !.acc = { chk.handle }, !.rc = write.rc ]

\* the switch of server::l2cap_input over opcode, out_size already clipped
switch(opcode, in, out_size) ==
    CASE opcode = op_exchange_mtu_request       -> handle_exchange_mtu_request(in, out_size)
      [] opcode = op_find_information_request   -> handle_find_information_request(in, out_size)
      [] opcode = op_find_by_type_value_request -> handle_find_by_type_value_request(in, out_size)
      [] opcode = op_read_by_type_request       -> handle_read_by_type_request(in, out_size)
      [] opcode = op_read_request               -> handle_read_request(in, out_size)
      [] opcode = op_read_blob_request          -> handle_read_blob_request(in, out_size)
      [] opcode = op_read_by_group_type_request -> handle_read_by_group_type_request(in, out_size)
      [] opcode = op_write_request              -> handle_write_request(in, out_size)
      [] OTHER -> Response(error_response(in[1], err_request_not_supported, 0, out_size))

\* dispatch that masks the command and signature flags out of the opcode
dispatch_masked(in, out_size) == switch(in[1] % 64, in, out_size)

\* server::l2cap_input from the opcode on: opcode = input[ 0 ], then the switch
dispatch(in, out_size) == switch(in[1], in, out_size)

\* l2cap_input that hands the caller's out_size to the handlers as it is
l2cap_input_unclipped(in, out_size) == dispatch(in, out_size)

\* server::l2cap_input: clip the output size to the negotiated mtu, then dispatch
l2cap_input(in, out_size) ==
    dispatch(in, Min(out_size, negotiated_mtu))

\* advertising_data that calls every name written a complete one
advertising_data_complete(name, buffer_size) ==
    LET flags     == IF buffer_size >= 3 THEN << 2, gap_flags, 6 >> ELSE << >>
        remaining == buffer_size - Len(flags)
    IN  IF name.configured /\ remaining > 2
        THEN LET name_length  == Len(name.chars)
                 max_name_len == Min(name_length, remaining - 2)
             IN  IF name_length > 0
                 THEN [ buffer |-> flags \o << u8(max_name_len + 1), gap_complete_local_name >>
                                   \o Take(name.chars, max_name_len),
                        size   |-> Len(flags) + max_name_len + 2 ]
                 ELSE [ buffer |-> flags, size |-> Len(flags) ]
        ELSE [ buffer |-> flags, size |-> Len(flags) ]

\* advertising_data that copies the whole name, whatever room is left
advertising_data_unclipped(name, buffer_size) ==
    LET flags     == IF buffer_size >= 3 THEN << 2, gap_flags, 6 >> ELSE << >>
        remaining == buffer_size - Len(flags)
    IN  IF name.configured /\ remaining > 2
        THEN LET name_length  == Len(name.chars)
                 max_name_len == name_length
             IN  IF name_length > 0
                 THEN [ buffer |-> flags
                                   \o << u8(max_name_len + 1),
                                         IF max_name_len = name_length
                                         THEN gap_complete_local_name
                                         ELSE gap_shortened_local_name >>
                                   \o Take(name.chars, max_name_len),
                        size   |-> Len(flags) + max_name_len + 2 ]
                 ELSE [ buffer |-> flags, size |-> Len(flags) ]
        ELSE [ buffer |-> flags, size |-> Len(flags) ]

\* server::advertising_data: the octets written from begin on, and the size returned
advertising_data(name, buffer_size) ==
    LET flags     == IF buffer_size >= 3 THEN << 2, gap_flags, 6 >> ELSE << >>
        remaining == buffer_size - Len(flags)
    IN  IF name.configured /\ remaining > 2
        THEN LET name_length  == Len(name.chars)
                 max_name_len == Min(name_length, remaining - 2)
             IN  IF name_length > 0
                 THEN [ buffer |-> flags
                                   \o << u8(max_name_len + 1),
                                         IF max_name_len = name_length
                                         THEN gap_complete_local_name
                                         ELSE gap_shortened_local_name >>
                                   \o Take(name.chars, max_name_len),
                        size   |-> Len(flags) + max_name_len + 2 ]
                 ELSE [ buffer |-> flags, size |-> Len(flags) ]
        ELSE [ buffer |-> flags, size |-> Len(flags) ]

(***************************************************************************)
(* The request PDUs and output buffer sizes the transport hands in.        *)
(***************************************************************************)
\* starting and ending handles of the range requests
RangePairs ==
    { << 0, 0 >>, << 0, 65535 >>, << 1, 65535 >>, << 1, 3 >>, << 2, 1 >>, << 3, 3 >>,
      << 4, 65535 >>, << 5, 8 >>, << 6, 6 >>, << 9, 65535 >>, << 12, 65535 >>,
      << 256, 255 >> }

\* the ranges asked with a type the handler has no attribute or group for
FewPairs == { << 0, 65535 >>, << 1, 65535 >>, << 4, 3 >>, << 65535, 65535 >> }

RangeHeader(opcode, pair) == << opcode >> \o write_handle(pair[1]) \o write_handle(pair[2])

ExchangeMtuRequests ==
    { << op_exchange_mtu_request >> \o write_16bit(mtu) : mtu \in { 0, 22, 23, 25, 65535 } }
    \cup { << 2 >>, << 2, 23 >>, << 2, 23, 0, 0 >>, << 2, 22, 0, 0 >> }

FindInformationRequests ==
    { RangeHeader(op_find_information_request, pair) : pair \in RangePairs }
    \cup { << 4 >>, << 4, 1, 0, 255 >>, << 4, 0, 0, 5, 0, 0 >>, << 4, 1, 0, 255, 255, 0 >>,
           << 4, 6, 0, 255, 255 >> }

FindByTypeValueRequests ==
    { RangeHeader(op_find_by_type_value_request, pair) \o type \o value :
        pair \in RangePairs, type \in { << 0, 40 >> },
        value \in { << 15, 24 >>, Uuid128A } }
    \cup { RangeHeader(op_find_by_type_value_request, pair) \o type_value :
             pair \in FewPairs, type_value \in { << 1, 40, 15, 24 >>, << 0, 40, 16, 24 >> } }
    \cup { << 6, 1, 0, 255, 255, 0, 40 >>, << 6, 0, 0, 255, 255, 0, 40, 15 >>,
           << 6, 1, 0, 255, 255, 0, 40, 15, 24, 0 >>,
           << 6, 0, 0, 255, 255, 0, 40, 15, 24, 0, 0, 0 >>,
           << 6, 1, 0, 255, 255, 0, 40 >> \o Uuid128A \o << 0 >> }

ReadByTypeRequests ==
    { RangeHeader(op_read_by_type_request, pair) \o type :
        pair \in RangePairs, type \in { << 25, 42 >>, << 3, 40 >> } }
    \cup { RangeHeader(op_read_by_type_request, pair) \o type :
             pair \in FewPairs \cup { << 9, 65535 >> },
             type \in { << 0, 40 >>, << 61, 42 >>, << 6, 42 >>, Uuid128B, BaseUuid(25, 42) } }
    \cup { << 8, 1, 0, 255, 255, 25 >>, << 8, 0, 0, 255, 255, 25, 42, 0 >> }

ReadByGroupTypeRequests ==
    { RangeHeader(op_read_by_group_type_request, pair) \o type :
        pair \in RangePairs, type \in { << 0, 40 >> } }
    \cup { RangeHeader(op_read_by_group_type_request, pair) \o type :
             pair \in FewPairs,
             type \in { << 1, 41 >>, BaseUuid(0, 40), << 0, 40 >> \o [ i \in 1..14 |-> 0 ] } }
    \cup { << 16, 1, 0, 255, 255, 0 >>, << 16, 0, 0, 255, 255, 0, 40, 0 >> }

ReadRequests ==
    { << op_read_request >> \o write_handle(h) : h \in { 0, 3, 6, 8, 11, 12 } }
    \cup { << 10 >>, << 10, 3, 0, 0 >> }

ReadBlobRequests ==
    { << op_read_blob_request >> \o write_handle(h) \o write_16bit(offset) :
        h \in { 0, 3, 6, 11, 12 }, offset \in { 0, 1, 2, 3, LongLen + 1 } }
    \cup { << 12 >>, << 12, 3, 0 >>, << 12, 3, 0, 0, 0, 0 >> }

WriteRequests ==
    { << op_write_request >> \o write_handle(h) \o value :
        h \in { 0, 3, 6, 8, 12 }, value \in { << >>, << 119 >>, << 119, 34 >>, << 1, 2, 3 >> } }
    \cup { << op_write_request >> \o write_handle(11) \o WrittenLongValue }
    \cup { << 18 >>, << 18, 6 >> }

\* first octets that are no opcode of the dispatch table
UnknownOpcodes == { 0, 1, 3, 5, 14, 22, 82, 210, 255 }

UnknownRequests ==
    { << opcode >> \o body : opcode \in UnknownOpcodes,
                             body \in { << >>, << 6, 0, 119 >> } }
    \cup { << 14 >> \o [ i \in 1..22 |-> i ] }

Requests ==
    ExchangeMtuRequests \cup FindInformationRequests \cup FindByTypeValueRequests
    \cup ReadByTypeRequests \cup ReadByGroupTypeRequests \cup ReadRequests
    \cup ReadBlobRequests \cup WriteRequests \cup UnknownRequests

\* the sizes of the output buffer the transport passes
OutSizes == { default_att_mtu_size, BigServerMtu - 1 }

\* the mtus a connection_data is constructed with
ServerMtus == { default_att_mtu_size, BigServerMtu }

(***************************************************************************)
(* The state machine.                                                      *)
(***************************************************************************)
NoMemo == [ valid |-> FALSE, in |-> << >>, out_size |-> 0, out |-> << >>, phase |-> "none" ]

\* the requests that only look at the database
DiscoveryOpcodes ==
    { op_find_information_request, op_find_by_type_value_request, op_read_by_type_request,
      op_read_by_group_type_request, op_read_blob_request }

\* read_memo after the request in, given out_size octets of buffer, was answered
\* with out: the first of a run of equal Read Requests is kept, with whether a
\* discovery request came after it ("between") and the read was then repeated ("again")
NextMemo(in, out_size, out) ==
    CASE in[1] = op_read_request /\ Len(in) = 3 ->
           IF read_memo.valid /\ read_memo.in = in /\ read_memo.out_size = out_size
           THEN [ read_memo EXCEPT !.phase = IF @ = "read" THEN "read" ELSE "again" ]
           ELSE [ valid |-> TRUE, in |-> in, out_size |-> out_size, out |-> out,
                  phase |-> "read" ]
      [] in[1] \in { op_write_request, op_exchange_mtu_request } -> NoMemo
      [] in[1] \in DiscoveryOpcodes /\ read_memo.valid ->
           [ read_memo EXCEPT !.phase = IF @ = "read" THEN "between" ELSE @ ]
      [] OTHER -> read_memo

NoWrite == [ valid |-> FALSE, handle |-> 0, data |-> << >> ]

\* last_write after the request in got the access result result: a write that
\* succeeded is kept for the request that follows it
NextWrite(in, result) ==
    CASE in[1] = op_write_request /\ result = "success" ->
           [ valid |-> TRUE, handle |-> read_handle(in, 1), data |-> Drop(in, 3) ]
      [] in[1] = op_read_request /\ Len(in) = 3 -> last_write
      [] OTHER -> NoWrite

\* an Exchange MTU Request the handler has to accept: 3 octets, mtu >= 23
IsAcceptedExchange(in) ==
    in[1] = op_exchange_mtu_request /\ Len(in) = 3 /\ read_16bit(in, 1) >= default_att_mtu_size

\* no call of advertising_data yet, by a server of the given name
NotAdvertised(name) ==
    [ name |-> name, called |-> FALSE, buffer_size |-> 0, buffer |-> << >>, size |-> 0 ]

\* connection_data::connection_data( server_mtu ), for each server of the model
Init ==
    /\ db \in 1..(Len(Databases) - 2)
    /\ server_mtu \in ServerMtus
    /\ client_mtu = default_att_mtu_size
    /\ values = InitialValues(db)
    /\ pc = "idle"
    /\ input = << >>
    /\ in_out_size = 0
    /\ output = << >>
    /\ accessed = {}
    /\ rc = "none"
    /\ exchanged = 0
    /\ read_memo = NoMemo
    /\ last_write = NoWrite
    /\ mtu_before = default_att_mtu_size
    /\ set_mtu = 0
    /\ advertising = NotAdvertised(NoName)

\* the transport calls l2cap_input with a request PDU and an output buffer
L2capInput ==
    /\ pc = "idle"
    /\ \E in \in Requests, out_size \in OutSizes :
         \E r \in { l2cap_input(in, out_size) } :
             /\ input' = in
             /\ in_out_size' = out_size
             /\ output' = r.out
             /\ client_mtu' = r.client_mtu
             /\ values' = r.values
             /\ accessed' = r.acc
             /\ rc' = r.rc
             /\ exchanged' = IF IsAcceptedExchange(in) THEN read_16bit(in, 1) ELSE exchanged
             /\ set_mtu' = IF IsAcceptedExchange(in) THEN 0 ELSE set_mtu
             /\ read_memo' = NextMemo(in, out_size, r.out)
             /\ last_write' = NextWrite(in, r.rc)
    /\ mtu_before' = client_mtu
    /\ pc' = "responded"
    /\ UNCHANGED << db, server_mtu, advertising >>

\* the transport sends the response and waits for the next request
TransportSend ==
    /\ pc = "responded"
    /\ pc' = "idle"
    /\ input' = << >>
    /\ in_out_size' = 0
    /\ output' = << >>
    /\ accessed' = {}
    /\ rc' = "none"
    /\ last_write' = IF input[1] = op_write_request THEN last_write ELSE NoWrite
    /\ mtu_before' = client_mtu
    /\ UNCHANGED << db, server_mtu, client_mtu, values, exchanged, read_memo, set_mtu,
                    advertising >>

\* the application changes the battery level the first characteristic is bound to
ApplicationChange ==
    /\ pc = "idle"
    /\ values' = [ values EXCEPT ![3] = << 171 - values[3][1] >> ]
    /\ read_memo' = NoMemo
    /\ last_write' = NoWrite
    /\ UNCHANGED << db, server_mtu, client_mtu, pc, input, in_out_size, output,
                    accessed, rc, exchanged, mtu_before, set_mtu, advertising >>

\* the mtus the transport sets itself
ClientMtus == { default_att_mtu_size, 24, 100 }

\* the transport calls connection.client_mtu( mtu ) between two requests
ClientMtu ==
    /\ pc = "idle"
    /\ \E mtu \in ClientMtus :
         /\ mtu >= default_att_mtu_size
         /\ client_mtu' = mtu
         /\ mtu_before' = mtu
         /\ set_mtu' = mtu
    /\ exchanged' = 0
    /\ read_memo' = NoMemo
    /\ UNCHANGED << db, server_mtu, values, pc, input, in_out_size, output, accessed, rc,
                    last_write, advertising >>

\* the transport constructs the connection_data of the next connection: the
\* server and the values of its attributes stay
NewConnection ==
    /\ pc = "idle"
    /\ server_mtu' \in ServerMtus
    /\ client_mtu' = default_att_mtu_size
    /\ mtu_before' = default_att_mtu_size
    /\ set_mtu' = 0
    /\ exchanged' = 0
    /\ read_memo' = NoMemo
    /\ last_write' = NoWrite
    /\ UNCHANGED << db, values, pc, input, in_out_size, output, accessed, rc, advertising >>

Next == L2capInput \/ TransportSend \/ ApplicationChange \/ ClientMtu \/ NewConnection

Spec == Init /\ [][Next]_vars

(***************************************************************************)
(* The connection with a wide MTU: the server with many long values, asked *)
(* with output buffers of more than 257 octets.                            *)
(***************************************************************************)
WideRequests ==
    ExchangeMtuRequests
    \cup { RangeHeader(op_read_by_type_request, pair) \o type :
             pair \in { << 1, 65535 >>, << 4, 65535 >>, << 5, 9 >> },
             type \in { << 61, 42 >>, << 62, 42 >>, << 0, 40 >>, << 3, 40 >> } }
    \cup { RangeHeader(op_find_by_type_value_request, pair) \o << 0, 40 >> \o value :
             pair \in { << 1, 65535 >>, << 2, 40 >> },
             value \in { << 15, 24 >>, << 10, 24 >> } }
    \cup { << op_read_request >> \o write_handle(handle) : handle \in { 3, 6 } }

WideOutSizes == { default_att_mtu_size, WideMtu }

WideInit ==
    /\ db \in (Len(Databases) - 2)..Len(Databases)
    /\ server_mtu = WideMtu
    /\ client_mtu = default_att_mtu_size
    /\ values = InitialValues(db)
    /\ pc = "idle"
    /\ input = << >>
    /\ in_out_size = 0
    /\ output = << >>
    /\ accessed = {}
    /\ rc = "none"
    /\ exchanged = 0
    /\ read_memo = NoMemo
    /\ last_write = NoWrite
    /\ mtu_before = default_att_mtu_size
    /\ set_mtu = 0
    /\ advertising = NotAdvertised(NoName)

\* the transport calls l2cap_input with a request PDU and a wide output buffer
WideL2capInput ==
    /\ pc = "idle"
    /\ \E in \in WideRequests, out_size \in WideOutSizes :
         \E r \in { l2cap_input(in, out_size) } :
             /\ input' = in
             /\ in_out_size' = out_size
             /\ output' = r.out
             /\ client_mtu' = r.client_mtu
             /\ values' = r.values
             /\ accessed' = r.acc
             /\ rc' = r.rc
             /\ exchanged' = IF IsAcceptedExchange(in) THEN read_16bit(in, 1) ELSE exchanged
             /\ set_mtu' = IF IsAcceptedExchange(in) THEN 0 ELSE set_mtu
             /\ read_memo' = NextMemo(in, out_size, r.out)
             /\ last_write' = NextWrite(in, r.rc)
    /\ mtu_before' = client_mtu
    /\ pc' = "responded"
    /\ UNCHANGED << db, server_mtu, advertising >>

\* the next connection, with a wide MTU again
WideNewConnection ==
    /\ pc = "idle"
    /\ server_mtu' = WideMtu
    /\ client_mtu' = default_att_mtu_size
    /\ mtu_before' = default_att_mtu_size
    /\ set_mtu' = 0
    /\ exchanged' = 0
    /\ read_memo' = NoMemo
    /\ last_write' = NoWrite
    /\ UNCHANGED << db, values, pc, input, in_out_size, output, accessed, rc, advertising >>

WideNext == WideL2capInput \/ TransportSend \/ ClientMtu \/ WideNewConnection

WideSpec == WideInit /\ [][WideNext]_vars

(***************************************************************************)
(* The link layer asks a server for its advertising data.                  *)
(***************************************************************************)
AdvInit ==
    /\ db = 1
    /\ server_mtu = default_att_mtu_size
    /\ client_mtu = default_att_mtu_size
    /\ values = InitialValues(db)
    /\ pc = "idle"
    /\ input = << >>
    /\ in_out_size = 0
    /\ output = << >>
    /\ accessed = {}
    /\ rc = "none"
    /\ exchanged = 0
    /\ read_memo = NoMemo
    /\ last_write = NoWrite
    /\ mtu_before = default_att_mtu_size
    /\ set_mtu = 0
    /\ \E name \in ServerNames : advertising = NotAdvertised(name)

\* a call of advertising_data( buffer, buffer_size )
AdvertisingData ==
    /\ \E buffer_size \in 0..MaxCapacity :
         \E r \in { advertising_data(advertising.name, buffer_size) } :
             advertising' = [ name |-> advertising.name, called |-> TRUE,
                              buffer_size |-> buffer_size, buffer |-> r.buffer,
                              size |-> r.size ]
    /\ UNCHANGED << db, server_mtu, client_mtu, values, pc, input, in_out_size, output,
                    accessed, rc, exchanged, read_memo, last_write, mtu_before, set_mtu >>

AdvNext == AdvertisingData

AdvSpec == AdvInit /\ [][AdvNext]_vars

(***************************************************************************)
(* The properties.                                                         *)
(***************************************************************************)
\* the opcodes of the dispatch table
DispatchedOpcodes ==
    { op_exchange_mtu_request, op_find_information_request, op_find_by_type_value_request,
      op_read_by_type_request, op_read_request, op_read_blob_request,
      op_read_by_group_type_request, op_write_request }

\* the requests that carry a starting and an ending handle
RangeOpcodes ==
    { op_find_information_request, op_find_by_type_value_request, op_read_by_type_request,
      op_read_by_group_type_request }

\* the PDU lengths the size check of a range request lets through
RangeLengths(opcode) ==
    CASE opcode = op_find_information_request   -> { 5 }
      [] opcode = op_find_by_type_value_request -> { 9, 23 }
      [] OTHER                                  -> { 7, 21 }

\* a 5 octet Error Response
ErrorPdu(opcode, handle, error_code) ==
    << op_error_response, opcode, handle % 256, handle \div 256, error_code >>

\* the last request is a Read Request of 3 or a Read Blob Request of 5 octets
IsReadOrBlob ==
    \/ input[1] = op_read_request /\ Len(input) = 3
    \/ input[1] = op_read_blob_request /\ Len(input) = 5

\* C1: after l2cap_input returns, out_size is at most the out_size passed in and
\* at most the MTU negotiated when the call started, whatever the opcode and
\* whatever was requested before.
C1_OutSizeBounded ==
    [][ pc' = "responded" =>
          /\ Len(output') <= in_out_size'
          /\ Len(output') <= Min(server_mtu, client_mtu) ]_vars

\* a response that fills the negotiated MTU although the caller's buffer is larger
C1_Witness ==
    /\ pc = "responded"
    /\ input[1] = op_read_request
    /\ in_out_size > negotiated_mtu
    /\ Len(output) = negotiated_mtu

\* C2: every call produces exactly one response PDU: out_size >= 1, and its first
\* octet is Error Response or the request's opcode + 1.
C2_OneResponse ==
    pc = "responded" =>
        /\ Len(output) >= 1
        /\ output[1] = op_error_response \/ output[1] = input[1] + 1

C2_Witness ==
    /\ pc = "responded"
    /\ input[1] = op_find_by_type_value_request
    /\ Len(output) > 1
    /\ output[1] = op_find_by_type_value_response

\* C3: a first octet that is none of the eight dispatched opcodes is answered with
\* exactly 01 X 00 00 06, whatever follows it in the PDU.
C3_UnknownOpcode ==
    pc = "responded" /\ input[1] \notin DispatchedOpcodes =>
        output = ErrorPdu(input[1], 0, err_request_not_supported)

C3_Witness ==
    /\ pc = "responded"
    /\ input = << 82, 6, 0, 119 >>
    /\ output = << 1, 82, 0, 0, 6 >>

\* the last request is a range request with starting handle 0 or above the ending handle
BadRange ==
    /\ input[1] \in RangeOpcodes
    /\ Len(input) >= 5
    /\ read_handle(input, 1) = 0 \/ read_handle(input, 1) > read_handle(input, 3)

\* C4 as claimed: every range request with starting handle 0 or above the ending
\* handle is answered with invalid_handle naming the starting handle.
C4_AsClaimed ==
    pc = "responded" /\ BadRange =>
        output = ErrorPdu(input[1], read_handle(input, 1), err_invalid_handle)

\* C4: a range request of a length its size check lets through, with starting
\* handle 0 or above the ending handle, is answered with invalid_handle naming
\* the starting handle.
C4_InvalidRange ==
    pc = "responded" /\ BadRange /\ Len(input) \in RangeLengths(input[1]) =>
        output = ErrorPdu(input[1], read_handle(input, 1), err_invalid_handle)

C4_Witness ==
    /\ pc = "responded"
    /\ input = << 16, 0, 1, 255, 0, 0, 40 >>
    /\ output = << 1, 16, 0, 1, 1 >>

\* C5: an accepted Exchange MTU Request stores its mtu as client_mtu and is answered
\* with 03 and the server MTU; from then on no response is longer than
\* min(server_mtu, mtu).
C5_ExchangeMtu ==
    /\ pc = "responded" /\ IsAcceptedExchange(input) =>
         /\ client_mtu = read_16bit(input, 1)
         /\ output = << op_exchange_mtu_response >> \o write_16bit(server_mtu)
    /\ pc = "responded" /\ exchanged # 0 =>
         Len(output) <= Min(server_mtu, exchanged)

\* a read cut by the exchanged mtu, below the server's mtu and the caller's buffer
C5_Witness ==
    /\ pc = "responded"
    /\ input[1] = op_read_request
    /\ exchanged < in_out_size
    /\ in_out_size < server_mtu
    /\ Len(output) = exchanged

\* C6: an Exchange MTU Request that is not 3 octets long, or asks for less than 23,
\* is answered with 01 02 00 00 04 and leaves client_mtu as it was.
C6_ExchangeRejected ==
    [][ ( /\ pc' = "responded"
          /\ input'[1] = op_exchange_mtu_request
          /\ Len(input') # 3 \/ read_16bit(input', 1) < default_att_mtu_size )
        => /\ output' = ErrorPdu(op_exchange_mtu_request, 0, err_invalid_pdu)
           /\ client_mtu' = client_mtu ]_vars

C6_Witness ==
    /\ pc = "responded"
    /\ input = << 2, 22, 0 >>
    /\ output = << 1, 2, 0, 0, 4 >>
    /\ client_mtu = 25

\* C7: the server_mtu of a connection never changes after its construction,
\* client_mtu starts as 23 and stays >= 23, and the negotiated MTU lies between 23
\* and server_mtu, so the asserts on the mtu passed to client_mtu and on the
\* clipped out_size hold at every call.
C7_MtuInvariant ==
    /\ client_mtu = default_att_mtu_size
    /\ [](/\ client_mtu >= default_att_mtu_size
          /\ negotiated_mtu >= default_att_mtu_size
          /\ negotiated_mtu <= server_mtu
          /\ negotiated_mtu \in { server_mtu, client_mtu })
    /\ [][ /\ NewConnection \/ server_mtu' = server_mtu
           /\ pc' = "responded" =>
                /\ server_mtu' = server_mtu
                /\ Min(in_out_size', negotiated_mtu) >= default_att_mtu_size ]_vars

\* the client asked for more than the server provides
C7_Witness ==
    /\ pc = "responded"
    /\ client_mtu > server_mtu
    /\ exchanged = client_mtu
    /\ server_mtu > default_att_mtu_size
    /\ negotiated_mtu = server_mtu

\* C8: a Read or Read Blob Request for handle 0 is answered with invalid_handle and
\* handle 0, one for a handle above N with attribute_not_found and that handle, and
\* an attribute is accessed only for a handle in 1..N.
C8_ReadHandleCheck ==
    pc = "responded" /\ IsReadOrBlob =>
        LET handle == read_handle(input, 1)
        IN  /\ handle = 0 =>
                output = ErrorPdu(input[1], 0, err_invalid_handle)
            /\ handle > number_of_attributes =>
                output = ErrorPdu(input[1], handle, err_attribute_not_found)
            /\ accessed = IF 1 <= handle /\ handle <= number_of_attributes
                          THEN { handle } ELSE {}

C8_Witness ==
    /\ pc = "responded"
    /\ db = 2
    /\ input = << 12, 12, 0, 0, 0 >>
    /\ output = << 1, 12, 12, 0, 10 >>
    /\ accessed = {}

\* C9: on a valid handle, success and read_truncated give 0B / 0D and the octets
\* read, at most the negotiated MTU in all; invalid_offset gives invalid_offset for
\* Read Blob and read_not_permitted for Read; any other result gives
\* read_not_permitted; the errors name the requested handle.
C9_ReadResultMapping ==
    ( /\ pc = "responded"
      /\ IsReadOrBlob
      /\ read_handle(input, 1) \in 1..number_of_attributes )
    => LET handle == read_handle(input, 1)
           blob   == input[1] = op_read_blob_request
           offset == IF blob THEN read_16bit(input, 3) ELSE 0
           octets == AttributeOctets(handle - 1, handle)
       IN  CASE rc \in { "success", "read_truncated" } ->
                  /\ Len(output) >= 1
                  /\ Len(output) <= negotiated_mtu
                  /\ output[1] = IF blob THEN op_read_blob_response ELSE op_read_response
                  /\ Tail(output) = SubSeq(octets, offset + 1, offset + Len(output) - 1)
             [] rc = "invalid_offset" ->
                  output = ErrorPdu(input[1], handle,
                                    IF blob THEN err_invalid_offset ELSE err_read_not_permitted)
             [] OTHER ->
                  output = ErrorPdu(input[1], handle, err_read_not_permitted)

C9_Witness ==
    /\ pc = "responded"
    /\ input = << 12, 6, 0, 3, 0 >>
    /\ rc = "invalid_offset"
    /\ output = << 1, 12, 6, 0, 7 >>

\* C10 as claimed: a Read Request repeated with no Write Request, Exchange MTU
\* Request or application change in between gets the response of the first one.
C10_AsClaimed ==
    [][ ( /\ pc' = "responded"
          /\ input'[1] = op_read_request
          /\ read_memo.valid
          /\ read_memo.in = input' )
        => output' = read_memo.out ]_vars

\* C10: a Read Request repeated with the same out_size, with no Write Request,
\* Exchange MTU Request or application change in between, gets the response of the
\* first one, however many discovery requests came in between.
C10_ReadIdempotent ==
    [][ ( /\ pc' = "responded"
          /\ input'[1] = op_read_request
          /\ read_memo.valid
          /\ read_memo.in = input'
          /\ read_memo.out_size = in_out_size' )
        => output' = read_memo.out ]_vars

\* a read repeated after a discovery request
C10_Witness ==
    /\ pc = "responded"
    /\ input = << 10, 6, 0 >>
    /\ read_memo.phase = "again"
    /\ output = read_memo.out

\* the last request is a Read Request for the handle of the write before it
ReadsLastWrite ==
    /\ pc' = "responded"
    /\ input'[1] = op_read_request
    /\ Len(input') = 3
    /\ last_write.valid
    /\ read_handle(input', 1) = last_write.handle

\* C11 as claimed: the Read Request that follows a Write Request answered with a
\* Write Response, on the same handle, is answered with 0B and the written octets,
\* cut to the negotiated MTU - 1.
C11_AsClaimed ==
    [][ ReadsLastWrite =>
          output' = << op_read_response >> \o Take(last_write.data, negotiated_mtu - 1) ]_vars

\* C11: the Read Request that follows a Write Request which rewrote the whole of
\* a readable value, on the same handle, is answered with 0B and the written
\* octets, cut to min(out_size, negotiated MTU) - 1.
C11_WriteReadRoundTrip ==
    [][ ( /\ ReadsLastWrite
          /\ Len(last_write.data) = Len(values[last_write.handle])
          /\ CharacteristicOf(attribute_at(last_write.handle - 1)).read )
        => output' = << op_read_response >>
                     \o Take(last_write.data, Min(in_out_size', negotiated_mtu) - 1) ]_vars

\* the long value read back after it was written, cut by the negotiated MTU
C11_Witness ==
    /\ pc = "responded"
    /\ input = << 10, 11, 0 >>
    /\ last_write.valid
    /\ last_write.handle = 11
    /\ last_write.data = WrittenLongValue
    /\ Len(output) = negotiated_mtu
    /\ negotiated_mtu > default_att_mtu_size
    /\ output = << op_read_response >> \o Take(WrittenLongValue, negotiated_mtu - 1)

\* the last request is a Write Request long enough to carry a handle
IsWrite ==
    /\ input[1] = op_write_request
    /\ Len(input) >= 3

\* C12: a Write Request shorter than 3 octets is answered with invalid_pdu; on a
\* valid handle the write of input[3..in_size) is answered with the one octet 13
\* on success, with invalid_attribute_value_length on write_overflow and with
\* write_not_permitted on any other result, the errors naming the written handle.
C12_WriteResultMapping ==
    /\ pc = "responded" /\ input[1] = op_write_request /\ Len(input) < 3 =>
         /\ output = ErrorPdu(op_write_request, 0, err_invalid_pdu)
         /\ accessed = {}
    /\ pc = "responded" /\ IsWrite /\ read_handle(input, 1) \in 1..number_of_attributes =>
         LET handle == read_handle(input, 1)
         IN  /\ accessed = { handle }
             /\ CASE rc = "success" ->
                       /\ output = << op_write_response >>
                       /\ Take(values[handle], Len(input) - 3) = Drop(input, 3)
                  [] rc = "write_overflow" ->
                       output = ErrorPdu(op_write_request, handle,
                                         err_invalid_attribute_value_length)
                  [] OTHER ->
                       output = ErrorPdu(op_write_request, handle, err_write_not_permitted)
    /\ pc = "responded" /\ input = << 18, 3, 0, 119 >> => output = << 1, 18, 3, 0, 3 >>

\* a write of three octets to a value of two
C12_Witness ==
    /\ pc = "responded"
    /\ input = << 18, 6, 0, 1, 2, 3 >>
    /\ rc = "write_overflow"
    /\ output = << 1, 18, 6, 0, 13 >>

\* the handle of the primary service declaration of service s
RECURSIVE ServiceHandle(_)
ServiceHandle(s) ==
    IF s = 1 THEN 1 ELSE ServiceHandle(s - 1) + service_number_of_attributes(db, s - 1)

\* the last handle of service s
ServiceEnd(s) == ServiceHandle(s) + service_number_of_attributes(db, s) - 1

\* the services whose declaration handle lies in [ starting, ending ], ascending
ServicesIn(starting, ending) ==
    SelectSeq([ s \in 1..Len(Databases[db]) |-> s ],
              LAMBDA s : starting <= ServiceHandle(s) /\ ServiceHandle(s) <= ending)

\* the octets the request was given room for: out_size clipped to the negotiated MTU
ClippedOutSize == Min(in_out_size, negotiated_mtu)

\* the i-th of the tuples of size octets each that follow the first skip octets
Tuple(out, skip, size, i) == SubSeq(out, skip + (i - 1) * size + 1, skip + i * size)

\* the last request is a range request that passed check_size_and_handle_range
PassedRangeCheck(opcode) ==
    /\ input[1] = opcode
    /\ Len(input) \in RangeLengths(opcode)
    /\ read_handle(input, 1) # 0
    /\ read_handle(input, 1) <= read_handle(input, 3)
    /\ read_handle(input, 1) <= number_of_attributes

\* C13: in a Read By Group Type response the length octet is 4 + the uuid width
\* (6 or 20) of the first service whose declaration handle is in range; the
\* tuples are the in-range services of that width, in order, as many as fit, the
\* services of the other width left out; out_size - 2 is a positive multiple of
\* the length octet.
C13_GroupTuples ==
    ( /\ pc = "responded"
      /\ input[1] = op_read_by_group_type_request
      /\ output[1] = op_read_by_group_type_response )
    => LET in_range == ServicesIn(read_handle(input, 1), read_handle(input, 3))
           width    == Len(Databases[db][in_range[1]].uuid)
           length   == 4 + width
           same     == SelectSeq(in_range, LAMBDA s : Len(Databases[db][s].uuid) = width)
           count    == Min(Len(same), (ClippedOutSize - 2) \div length)
       IN  /\ Len(in_range) >= 1
           /\ length \in { 6, 20 }
           /\ output[2] = length
           /\ count >= 1
           /\ Len(output) - 2 = count * length
           /\ \A i \in 1..count :
                 Tuple(output, 2, length, i) =
                     write_handle(ServiceHandle(same[i])) \o write_handle(ServiceEnd(same[i]))
                     \o Databases[db][same[i]].uuid

\* two services of 16 bit uuid reported, the 128 bit one between them left out
\* although the buffer had room for it
C13_Witness ==
    /\ pc = "responded"
    /\ db = 2
    /\ input = << 16, 1, 0, 255, 255, 0, 40 >>
    /\ ClippedOutSize >= 2 + 6 + 20
    /\ output = << 17, 6, 1, 0, 3, 0, 15, 24, 9, 0, 11, 0, 15, 24 >>

\* C14: a Read By Group Type Request that passed the range check is answered with
\* unsupported_group_type when it is 21 octets long or its type is not 0x2800,
\* and with attribute_not_found when the type is 0x2800 and no service is declared
\* in [ starting, ending ]; both errors name the starting handle.
C14_GroupErrors ==
    pc = "responded" /\ PassedRangeCheck(op_read_by_group_type_request) =>
        LET starting == read_handle(input, 1)
        IN  IF Len(input) = 21 \/ read_16bit(input, 5) # uuid_primary_service
            THEN output = ErrorPdu(input[1], starting, err_unsupported_group_type)
            ELSE IF Len(ServicesIn(starting, read_handle(input, 3))) = 0
            THEN output = ErrorPdu(input[1], starting, err_attribute_not_found)
            ELSE output[1] = op_read_by_group_type_response

\* the starting handle is the value attribute of the last service
C14_Witness ==
    /\ pc = "responded"
    /\ db = 1
    /\ input = << 16, 3, 0, 3, 0, 0, 40 >>
    /\ output = << 1, 16, 3, 0, 10 >>

\* the attributes of [ starting, ending ] of the type a Read By Type Request asks
\* for, ascending
MatchingAttributes ==
    SelectSeq([ h \in 1..number_of_attributes |-> h ],
              LAMBDA h : /\ read_handle(input, 1) <= h
                         /\ h <= read_handle(input, 3)
                         /\ uuid_filter(attribute_at(h - 1), Drop(input, 5), Len(input) = 21))

\* the octets of tuples the handler wrote for the last Read By Type Request
TuplesWritten ==
    all_attributes(read_handle(input, 1), read_handle(input, 3),
                   [ buf |-> << >>, size_ |-> 0, first_ |-> TRUE, acc |-> {} ],
                   Drop(input, 5), Len(input) = 5 + 16, ClippedOutSize - 2).buf

\* C15 as claimed: in a Read By Type response every tuple is a handle and
\* length - 2 octets of value; the handles ascend strictly, lie in
\* [ starting, ending ] and are of the type asked for; an attribute after the
\* first is there only if its whole value has the size of the first one.
C15_AsClaimed ==
    ( /\ pc = "responded"
      /\ input[1] = op_read_by_type_request
      /\ output[1] = op_read_by_type_response )
    => LET length == output[2]
           count  == (Len(output) - 2) \div length
           handle(i) == read_handle(Tuple(output, 2, length, i), 0)
           value(i)  == Drop(Tuple(output, 2, length, i), 2)
       IN  /\ length >= 2
           /\ count >= 1
           /\ Len(output) = 2 + count * length
           /\ \A i \in 1..count :
                 /\ \E j \in 1..Len(MatchingAttributes) : MatchingAttributes[j] = handle(i)
                 /\ i > 1 => handle(i - 1) < handle(i)
                 /\ Len(value(i)) = length - 2
                 /\ value(i) = Take(AttributeOctets(handle(i) - 1, handle(i)), length - 2)
                 /\ i > 1 => Len(AttributeOctets(handle(i) - 1, handle(i))) = length - 2
           /\ accessed \subseteq { MatchingAttributes[j] : j \in 1..Len(MatchingAttributes) }

\* more than 255 octets of tuples written and the count reported modulo 256:
\* the response ends in the middle of its first tuple
C15_Witness ==
    /\ pc = "responded"
    /\ db = Len(Databases) - 1
    /\ input = << 8, 4, 0, 255, 255, 62, 42 >>
    /\ ClippedOutSize = WideMtu
    /\ output[1] = op_read_by_type_response
    /\ Len(TuplesWritten) >= 256
    /\ Len(output) = 2 + (Len(TuplesWritten) % 256)
    /\ (Len(output) - 2) % output[2] # 0

\* C16 as claimed: the first attribute of the type in range determines the
\* response: its value, cut to 253 octets and to the negotiated MTU - 4, is the
\* first tuple; attribute_not_found is returned only when no attribute in range
\* is of the type.
C16_AsClaimed ==
    pc = "responded" /\ PassedRangeCheck(op_read_by_type_request) =>
        IF Len(MatchingAttributes) = 0
        THEN output = ErrorPdu(input[1], read_handle(input, 1), err_attribute_not_found)
        ELSE LET first      == MatchingAttributes[1]
                 octets     == AttributeOctets(first - 1, first)
                 value_size == Min(Min(Len(octets), 253), negotiated_mtu - 4)
             IN  /\ Len(output) >= 2 + 2 + value_size
                 /\ output[1] = op_read_by_type_response
                 /\ output[2] = 2 + value_size
                 /\ SubSeq(output, 3, 4 + value_size) = write_handle(first) \o Take(octets, value_size)

\* the only attribute of the type holds more octets than the response has room
\* for: it is dropped and the request answered with attribute_not_found
C16_Witness ==
    /\ pc = "responded"
    /\ db = 2
    /\ input = << 8, 9, 0, 255, 255, 61, 42 >>
    /\ accessed = { 11 }
    /\ output = << 1, 8, 9, 0, 10 >>

\* the attribute with this handle carries the sentinel of a 128 bit uuid
HasLongUuid(h) == attribute_at(h - 1).uuid = internal_128bit_uuid

\* the attributes of [ starting, ending ] whose uuid is of the kind of the
\* attribute at the starting handle, ascending; none when starting is above N
EligibleAttributes ==
    LET starting == read_handle(input, 1)
    IN  IF starting > number_of_attributes THEN << >>
        ELSE SelectSeq([ h \in 1..number_of_attributes |-> h ],
                       LAMBDA h : /\ starting <= h
                                  /\ h <= read_handle(input, 3)
                                  /\ HasLongUuid(h) = HasLongUuid(starting))

\* the uuid of the attribute with this handle, as on the wire
WireUuid(h) ==
    IF HasLongUuid(h) THEN CharacteristicOf(attribute_at(h - 1)).uuid
                      ELSE write_16bit(attribute_at(h - 1).uuid)

\* C17: a Find Information response has format 01, or 02 when the attribute at
\* the starting handle carries the 128 bit sentinel; its tuples are of the size
\* of that format (4 or 18), report the attributes of [ starting, min(ending, N) ]
\* of that uuid kind in ascending order, and stop when less than a tuple of
\* buffer is left.
C17_OneFormat ==
    ( /\ pc = "responded"
      /\ input[1] = op_find_information_request
      /\ output[1] = op_find_information_response )
    => LET long  == HasLongUuid(read_handle(input, 1))
           size  == IF long THEN 18 ELSE 4
           count == Min(Len(EligibleAttributes), (ClippedOutSize - 2) \div size)
       IN  /\ output[2] = IF long THEN format_long_128bit ELSE format_short_16bit
           /\ Len(output) = 2 + count * size
           /\ \A i \in 1..count :
                 Tuple(output, 2, size, i) =
                     write_handle(EligibleAttributes[i]) \o WireUuid(EligibleAttributes[i])

\* a range of four attributes answered in the 16 bit format with the three of
\* them that have a 16 bit uuid
C17_Witness ==
    /\ pc = "responded"
    /\ db = 2
    /\ input = << 4, 5, 0, 8, 0 >>
    /\ output = << 5, 1, 5, 0, 3, 40, 7, 0, 3, 40, 8, 0, 6, 42 >>

\* C18: a Find Information Request is never answered with a response without
\* tuples: with no attribute of the format's kind in range the answer is
\* attribute_not_found, and a response holds at least one tuple, the first one
\* that of the starting handle.
C18_NoEmptyResponse ==
    /\ ( /\ pc = "responded"
          /\ input[1] = op_find_information_request
          /\ Len(input) = 5
          /\ read_handle(input, 1) # 0
          /\ read_handle(input, 1) <= read_handle(input, 3)
          /\ Len(EligibleAttributes) = 0 )
        => output = ErrorPdu(input[1], read_handle(input, 1), err_attribute_not_found)
    /\ ( /\ pc = "responded"
          /\ input[1] = op_find_information_request
          /\ output[1] = op_find_information_response )
        => /\ Len(output) >= 2 + (IF output[2] = format_long_128bit THEN 18 ELSE 4)
           /\ read_handle(output, 2) = read_handle(input, 1)
           /\ Len(EligibleAttributes) >= 1

\* the only attribute in range has a 128 bit uuid and is reported
C18_Witness ==
    /\ pc = "responded"
    /\ db = 2
    /\ input = << 4, 6, 0, 6, 0 >>
    /\ output = << 5, 2, 6, 0 >> \o Uuid128B

\* C19 as claimed: a Find By Type Value Request of 9 to 23 octets is not answered
\* with invalid_pdu, one of any other length is.
C19_AsClaimed ==
    pc = "responded" /\ input[1] = op_find_by_type_value_request =>
        ( output = ErrorPdu(input[1], 0, err_invalid_pdu) <=> Len(input) \notin 9..23 )

\* a request of 10 octets, a value of 3 octets to look for, answered with invalid_pdu
C19_Witness ==
    /\ pc = "responded"
    /\ input = << 6, 1, 0, 255, 255, 0, 40, 15, 24, 0 >>
    /\ output = << 1, 6, 0, 0, 4 >>

\* the services declared in [ starting, ending ] whose uuid is the value a Find
\* By Type Value Request carries, ascending
MatchingServices ==
    SelectSeq(ServicesIn(read_handle(input, 1), read_handle(input, 3)),
              LAMBDA s : Databases[db][s].uuid = Drop(input, 7))

\* the Find By Type Value response with the first count matching services
FindByTypeValueResponse(count) ==
    /\ count >= 1
    /\ output[1] = op_find_by_type_value_response
    /\ Len(output) = 1 + 4 * count
    /\ \A i \in 1..count :
          Tuple(output, 1, 4, i) = write_handle(ServiceHandle(MatchingServices[i]))
                                   \o write_handle(ServiceEnd(MatchingServices[i]))

\* the last request is a Find By Type Value Request for primary services that
\* passed the range check and found a service
FoundByTypeValue ==
    /\ pc = "responded"
    /\ PassedRangeCheck(op_find_by_type_value_request)
    /\ read_16bit(input, 5) = uuid_primary_service
    /\ Len(MatchingServices) >= 1

\* C20 as claimed: the response holds a pair for each matching service, limited
\* to the first floor((negotiated MTU - 1) / 4) of them.
C20_AsClaimed ==
    FoundByTypeValue =>
        FindByTypeValueResponse(Min(Len(MatchingServices), (negotiated_mtu - 1) \div 4))

\* every service matches and the buffer, as large as the negotiated MTU, has
\* room for ManyCount pairs: 256 octets of pairs and more are written, and what
\* is reported is short of them
C20_Witness ==
    /\ FoundByTypeValue
    /\ db = Len(Databases)
    /\ input = << 6, 1, 0, 255, 255, 0, 40, 15, 24 >>
    /\ ClippedOutSize = WideMtu
    /\ negotiated_mtu = WideMtu
    /\ Len(MatchingServices) = ManyCount
    /\ 4 * Min(ManyCount, (WideMtu - 1) \div 4) >= 256
    /\ Len(output) = 1 + ((4 * Min(ManyCount, (WideMtu - 1) \div 4)) % 256)

\* C21: a Find By Type Value Request that passed the range check is answered with
\* unsupported_group_type when its type is not 0x2800, and with
\* attribute_not_found when the type is 0x2800 and no service declared in
\* [ starting, ending ] has the value as its uuid; both errors name the starting
\* handle.
C21_FindByTypeValueErrors ==
    pc = "responded" /\ PassedRangeCheck(op_find_by_type_value_request) =>
        LET starting == read_handle(input, 1)
        IN  /\ read_16bit(input, 5) # uuid_primary_service =>
                  output = ErrorPdu(input[1], starting, err_unsupported_group_type)
            /\ read_16bit(input, 5) = uuid_primary_service /\ Len(MatchingServices) = 0 =>
                  output = ErrorPdu(input[1], starting, err_attribute_not_found)

\* the value is the uuid of a service of the server, but the type asked for is 0x2801
C21_Witness ==
    /\ pc = "responded"
    /\ input = << 6, 1, 0, 255, 255, 1, 40, 15, 24 >>
    /\ output = << 1, 6, 1, 0, 16 >>

\* the last request with its ending handle replaced by N
ClampedInput ==
    SubSeq(input, 1, 3) \o write_handle(number_of_attributes) \o Drop(input, 5)

\* C24: the checks of a range request come in a fixed order and the first that
\* fails decides: a length that is not allowed gives invalid_pdu with handle 0
\* whatever the handles are; then starting = 0 or starting > ending gives
\* invalid_handle; then starting > N gives attribute_not_found; only a request
\* that passed these is answered with unsupported_group_type.  An ending handle
\* above N is no error: the answer is that for the ending handle N.
C24_CheckOrder ==
    pc = "responded" /\ input[1] \in RangeOpcodes =>
        IF Len(input) \notin RangeLengths(input[1])
        THEN output = ErrorPdu(input[1], 0, err_invalid_pdu)
        ELSE LET starting == read_handle(input, 1)
                 ending   == read_handle(input, 3)
             IN  IF starting = 0 \/ starting > ending
                 THEN output = ErrorPdu(input[1], starting, err_invalid_handle)
                 ELSE IF starting > number_of_attributes
                 THEN output = ErrorPdu(input[1], starting, err_attribute_not_found)
                 ELSE /\ output # ErrorPdu(input[1], 0, err_invalid_pdu)
                      /\ output # ErrorPdu(input[1], starting, err_invalid_handle)
                      /\ ending > number_of_attributes =>
                            output = l2cap_input(ClampedInput, in_out_size).out

\* a Read By Group Type Request of a type that is no group, with starting handle 0
C24_Witness ==
    /\ pc = "responded"
    /\ input = << 16, 0, 0, 255, 255, 1, 41 >>
    /\ output = << 1, 16, 0, 0, 1 >>

\* C25: an attribute reported in the 128 bit format has a handle h >= 2, the
\* attribute at h - 1 is a Characteristic Declaration whose read yields exactly
\* 19 octets, and the uuid reported is octets 3..18 of them; every attribute
\* that carries the 128 bit sentinel follows its declaration like that.
C25_LongUuidSource ==
    /\ \A h \in 1..number_of_attributes :
          HasLongUuid(h) =>
              /\ h >= 2
              /\ attribute_at(h - 2).uuid = uuid_characteristic
              /\ read_access(h - 2, 19, 0, 1).rc = "success"
              /\ Len(read_access(h - 2, 19, 0, 1).data) = 19
    /\ ( /\ pc = "responded"
          /\ input[1] = op_find_information_request
          /\ output[1] = op_find_information_response
          /\ output[2] = format_long_128bit )
        => \A i \in 1..((Len(output) - 2) \div 18) :
             LET h == read_handle(Tuple(output, 2, 18, i), 0)
             IN  /\ h >= 2
                 /\ h <= number_of_attributes
                 /\ HasLongUuid(h)
                 /\ Drop(Tuple(output, 2, 18, i), 2) = SubSeq(read_access(h - 2, 19, 0, 1).data, 4, 19)

\* the attribute with the 128 bit uuid found from a range that starts at it
C25_Witness ==
    /\ pc = "responded"
    /\ db = 2
    /\ input = << 4, 6, 0, 255, 255 >>
    /\ output = << 5, 2, 6, 0 >> \o Uuid128B

\* the attribute with this handle is a primary service declaration
IsServiceDeclaration(h) == attribute_at(h - 1).uuid = uuid_primary_service

\* C26: the handle ranges of the services partition 1..N: handle 1 and every
\* handle after the end of a group is a service declaration, N is the end of a
\* group, and the pairs ( found, group end ) of a Find By Type Value response
\* satisfy 1 <= found <= group end <= N, name a service declaration and the
\* attributes up to the next one, and ascend without overlap.
C26_ServiceRanges ==
    /\ IsServiceDeclaration(1)
    /\ ServiceEnd(Len(Databases[db])) = number_of_attributes
    /\ ( /\ pc = "responded"
          /\ input[1] = op_find_by_type_value_request
          /\ output[1] = op_find_by_type_value_response )
        => \A i \in 1..((Len(output) - 1) \div 4) :
             LET found == read_handle(Tuple(output, 1, 4, i), 0)
                 end   == read_handle(Tuple(output, 1, 4, i), 2)
             IN  /\ 1 <= found
                 /\ found <= end
                 /\ end <= number_of_attributes
                 /\ IsServiceDeclaration(found)
                 /\ \A h \in (found + 1)..end : ~IsServiceDeclaration(h)
                 /\ end < number_of_attributes => IsServiceDeclaration(end + 1)
                 /\ i > 1 => read_handle(Tuple(output, 1, 4, i - 1), 2) < found

\* the services of the third database from the fifth on, the last one ending at N
C26_Witness ==
    /\ pc = "responded"
    /\ db = 3
    /\ input = << 6, 9, 0, 255, 255, 0, 40, 15, 24 >>
    /\ output = << 7, 13, 0, 15, 0, 16, 0, 18, 0, 19, 0, 21, 0, 22, 0, 24, 0 >>

\* C27: a call of l2cap_input never changes server_mtu, changes client_mtu only
\* when the request is an accepted Exchange MTU Request, and changes the
\* attribute values only when the request is a Write Request.
C27_Frame ==
    [][ pc' = "responded" =>
          /\ server_mtu' = server_mtu
          /\ ~IsAcceptedExchange(input') => client_mtu' = client_mtu
          /\ input'[1] # op_write_request => values' = values
          /\ db' = db ]_vars

\* an octet string that is a Write Request but for its first octet, after an
\* mtu exchange and a write: refused, the mtu and the value written before kept
C27_Witness ==
    /\ pc = "responded"
    /\ db = 2
    /\ input = << 82, 6, 0, 119 >>
    /\ output[1] = op_error_response
    /\ client_mtu = 65535
    /\ values[6] = << 119, 34 >>

\* C28: on a connection whose client_mtu the transport has not set itself since,
\* client_mtu is the mtu of the most recent accepted Exchange MTU Request, 23 if
\* there was none, whatever it was before: a later exchange lowers the negotiated
\* MTU again or raises it up to server_mtu.
C28_LastExchangeWins ==
    /\ set_mtu = 0 =>
          client_mtu = IF exchanged = 0 THEN default_att_mtu_size ELSE exchanged
    /\ pc = "responded" /\ IsAcceptedExchange(input) =>
          /\ client_mtu = read_16bit(input, 1)
          /\ negotiated_mtu = Min(server_mtu, read_16bit(input, 1))
          /\ output[1] = op_exchange_mtu_response

\* a second exchange, with a smaller mtu, brings the negotiated MTU down from
\* server_mtu
C28_Witness ==
    /\ pc = "responded"
    /\ IsAcceptedExchange(input)
    /\ mtu_before = 65535
    /\ server_mtu = BigServerMtu
    /\ client_mtu = 25
    /\ negotiated_mtu = 25

\* the name AD structure of the n first octets of the name
NameStructure(name, n) ==
    << n + 1, IF n = Len(name.chars) THEN gap_complete_local_name
                                     ELSE gap_shortened_local_name >>
    \o Take(name.chars, n)

\* C22 as claimed: with at least 3 octets of buffer the flags 02 01 06 are written
\* and then, for any name configured and at least 3 octets left, the name
\* structure of the min(name length, octets left - 2) first octets of the name.
C22_AsClaimed ==
    advertising.called /\ advertising.buffer_size >= 3 =>
        LET name      == advertising.name
            remaining == advertising.buffer_size - 3
        IN  advertising.buffer =
                << 2, 1, 6 >>
                \o (IF name.configured /\ remaining >= 3
                    THEN NameStructure(name, Min(Len(name.chars), remaining - 2))
                    ELSE << >>)

\* C22: with at least 3 octets of buffer the flags 02 01 06 are written and
\* then, for a name of at least one character and at least 3 octets left, the
\* name structure of the min(name length, octets left - 2) first octets of the
\* name, of type 09 when that is the whole name and 08 otherwise; nothing more
\* for no name and for the empty name.
C22_AdvertisingData ==
    advertising.called /\ advertising.buffer_size >= 3 =>
        LET name      == advertising.name
            remaining == advertising.buffer_size - 3
        IN  advertising.buffer =
                << 2, 1, 6 >>
                \o (IF name.configured /\ Len(name.chars) > 0 /\ remaining >= 3
                    THEN NameStructure(name, Min(Len(name.chars), remaining - 2))
                    ELSE << >>)

\* a name one octet too long for the payload, shortened
C22_Witness ==
    /\ advertising.called
    /\ advertising.buffer_size = 31
    /\ advertising.name = Name(27)
    /\ advertising.buffer = << 2, 1, 6, 27, 8 >> \o Take(Name(27).chars, 26)

\* C23: advertising_data returns the number of octets it wrote, which is at most
\* the size of the buffer, writes nothing beyond the buffer, and writes nothing
\* and returns 0 for a buffer of less than 3 octets.
C23_AdvertisingSize ==
    advertising.called =>
        /\ advertising.size = Len(advertising.buffer)
        /\ advertising.size <= advertising.buffer_size
        /\ Len(advertising.buffer) <= advertising.buffer_size
        /\ advertising.buffer_size < 3 => advertising.size = 0 /\ advertising.buffer = << >>

\* a buffer with room for the flags and one octet less than the shortest name
\* structure: the flags only
C23_Witness ==
    /\ advertising.called
    /\ advertising.name = Name(LongNameLen)
    /\ advertising.buffer_size = 5
    /\ advertising.size = 3

\* C29 as claimed: the out_size of a Read By Type response is 2 + k * length, k
\* the number of tuples the handler wrote and length output[1], whatever the
\* negotiated MTU is.
C29_AsClaimed ==
    ( /\ pc = "responded"
      /\ input[1] = op_read_by_type_request
      /\ output[1] = op_read_by_type_response )
    => Len(output) = 2 + (Len(TuplesWritten) \div output[2]) * output[2]

\* 256 octets of tuples written and none of them reported
C29_Witness ==
    /\ pc = "responded"
    /\ input = << 8, 1, 0, 255, 255, 61, 42 >>
    /\ ClippedOutSize = WideMtu
    /\ Len(TuplesWritten) >= 256
    /\ Len(output) < 2 + Len(TuplesWritten)

=============================================================================
